---- MODULE Spec2Model ----
(***************************************************************************)
(* Model of the decision pipeline of smart_ev_optimizer:                   *)
(*   safety.py         SafetyCheck.evaluate, OBCCooldownTracker            *)
(*   power_manager.py  CalendarHourTracker, allocate_power_to_vehicles     *)
(*   optimizer.py      find_cheapest_night_price, evaluate_opportunity_cost*)
(*   vehicle.py        VehicleState.needs_charge                           *)
(*   coordinator.py    run_decision_pipeline, _build_result                *)
(*   switch.py         SEOForceChargeSwitchEntity                          *)
(*                     SEOPauseAllSwitchEntity                             *)
(*   number.py         SEOPowerLimitNumber                                 *)
(*   charger_handler.py  EaseeChargerHandler.verify_state                  *)
(*                                                                         *)
(* Numbers.  Power is kept in watts.  A float "kW" value of the code is a  *)
(* rational number of watts [n |-> numerator, d |-> denominator], d > 0,   *)
(* so that the mean of the samples and every later subtraction are exact   *)
(* (IEEE rounding is not modelled).  Prices are integers in 1/100 of the   *)
(* currency unit, the VAT rate an integer percentage; the two figures the  *)
(* optimizer compares are kept in 1/10000.  An Optional value is a         *)
(* sequence of length 0 (None) or 1.                                       *)
(***************************************************************************)
EXTENDS Integers, Sequences, FiniteSets, TLC

(***************************************************************************)
(* Program constants                                                       *)
(***************************************************************************)
MIN_CHARGING_AMPS == 6
NUM_PHASES == 3
VOLTAGE == 230
DEFAULT_FUSE_SIZE == 20
SAFE_MODE_MAX_AMPS == 6
OBC_COOLDOWN_SECONDS == 30
HOURS_PER_DAY == 24

(***************************************************************************)
(* Bounds of the model                                                     *)
(***************************************************************************)
\* vehicles in the configured list
NumVehicles == 2
\* samples the tracker may retain before a cycle is no longer started
MaxSamples == 2
\* advances of the wall clock in one behaviour
MaxWallSteps == 3
\* advances of the monotonic clock in one behaviour
MaxMonoSteps == 3

\* Input values the environment may present.
None == <<>>
Some(x) == <<x>>
Priorities == {1, 2}
WallAdvances == {1, HOURS_PER_DAY}
MonoAdvances == {15}

(***************************************************************************)
(* Exact arithmetic on watts                                               *)
(***************************************************************************)
Rat(n, d) == [n |-> n, d |-> d]
RatInt(w) == Rat(w, 1)
\* a - b
RatSub(a, b) == Rat(a.n * b.d - b.n * a.d, a.d * b.d)
\* a <= b
RatLeq(a, b) == a.n * b.d <= b.n * a.d
RatLess(a, b) == a.n * b.d < b.n * a.d
\* max(0.0, a)
RatMax0(a) == IF a.n < 0 THEN Rat(0, 1) ELSE a
\* Python int(): truncation toward zero of a / w, w a positive integer
TruncDiv(a, w) ==
    IF a.n >= 0 THEN a.n \div (a.d * w) ELSE -((-a.n) \div (a.d * w))

RECURSIVE SeqSum(_)
SeqSum(s) == IF s = <<>> THEN 0 ELSE Head(s) + SeqSum(Tail(s))

Min(a, b) == IF a <= b THEN a ELSE b

(***************************************************************************)
(* vehicle.py                                                              *)
(***************************************************************************)
\* VehicleState: the fields the pipeline reads or writes.
VehicleState(id, prio, target, soc, connected, charger, amps, phases) ==
    [vehicle_id |-> id, priority |-> prio, target_soc |-> target,
     current_soc |-> soc, is_connected |-> connected,
     charger_entity_id |-> charger,
     allocated_amps |-> amps, allocated_phases |-> phases]

\* needs_charge with the state of charge ignored
needs_charge_ignoring_soc(v) == v.is_connected

\* VehicleState.needs_charge
needs_charge(v) ==
    IF ~v.is_connected THEN FALSE
    ELSE IF v.current_soc = None THEN TRUE
    ELSE v.current_soc[1] < v.target_soc

(***************************************************************************)
(* safety.py                                                               *)
(***************************************************************************)
SafetyResult(allow, reason, safe, amps) ==
    [allow_charging |-> allow, reason |-> reason, safe_mode |-> safe,
     max_amps |-> amps]

\* evaluate with rule 1 matching a battery power of zero as well
evaluate_nonpositive(grid_rewards_active, battery_power_w, grid_meter_available, obc_cooldown_active) ==
    IF grid_rewards_active /\ battery_power_w <= 0
      THEN SafetyResult(FALSE, "grid_rewards_active_battery_exporting", FALSE, None)
    ELSE IF obc_cooldown_active
      THEN SafetyResult(FALSE, "obc_cooldown_active", FALSE, None)
    ELSE IF ~grid_meter_available
      THEN SafetyResult(TRUE, "grid_meter_unavailable_safe_mode", TRUE,
                        Some(SAFE_MODE_MAX_AMPS))
    ELSE SafetyResult(TRUE, "all_clear", FALSE, None)

\* SafetyCheck.evaluate
evaluate(grid_rewards_active, battery_power_w, grid_meter_available, obc_cooldown_active) ==
    IF grid_rewards_active /\ battery_power_w < 0
      THEN SafetyResult(FALSE, "grid_rewards_active_battery_exporting", FALSE, None)
    ELSE IF obc_cooldown_active
      THEN SafetyResult(FALSE, "obc_cooldown_active", FALSE, None)
    ELSE IF ~grid_meter_available
      THEN SafetyResult(TRUE, "grid_meter_unavailable_safe_mode", TRUE,
                        Some(SAFE_MODE_MAX_AMPS))
    ELSE SafetyResult(TRUE, "all_clear", FALSE, None)

\* is_active with the window closed at its end (<= instead of <)
is_active_inclusive(cd, t, charger_id) ==
    IF charger_id \notin DOMAIN cd THEN FALSE
    ELSE (t - cd[charger_id]) <= OBC_COOLDOWN_SECONDS

\* OBCCooldownTracker.is_active, on the dict cd read at monotonic time t
is_active(cd, t, charger_id) ==
    IF charger_id \notin DOMAIN cd THEN FALSE
    ELSE (t - cd[charger_id]) < OBC_COOLDOWN_SECONDS

\* OBCCooldownTracker.start_cooldown: the dict after the call at time t
start_cooldown(cd, t, charger_id) ==
    [k \in (DOMAIN cd) \cup {charger_id} |->
        IF k = charger_id THEN t ELSE cd[k]]

(***************************************************************************)
(* power_manager.py: CalendarHourTracker                                   *)
(***************************************************************************)
\* datetime.hour of the wall-clock instant t (t counts hours since an epoch
\* midnight, so t identifies one calendar hour of one date)
HourOf(t) == t % HOURS_PER_DAY

\* add_sample without the reset on a change of hour
add_sample_never_clears(tr, watts, t) ==
    [samples |-> Append(tr.samples, watts), current_hour |-> Some(HourOf(t))]

\* CalendarHourTracker.add_sample at wall-clock instant t: the tracker
\* [samples, current_hour] after the call
add_sample(tr, watts, t) ==
    LET hour == HourOf(t)
        kept == IF tr.current_hour # None /\ hour # tr.current_hour[1]
                  THEN <<>> ELSE tr.samples
    IN [samples |-> Append(kept, watts), current_hour |-> Some(hour)]

\* CalendarHourTracker.average_kw (in watts, exact)
average_kw(tr) ==
    IF tr.samples = <<>> THEN Rat(0, 1)
    ELSE Rat(SeqSum(tr.samples), Len(tr.samples))

\* available_capacity_kw without the clamp at zero
available_capacity_kw_unclamped(tr, power_limit_w) ==
    RatSub(RatInt(power_limit_w), average_kw(tr))

\* CalendarHourTracker.available_capacity_kw (limit and result in watts)
available_capacity_kw(tr, power_limit_w) ==
    RatMax0(RatSub(RatInt(power_limit_w), average_kw(tr)))

(***************************************************************************)
(* power_manager.py: allocate_power_to_vehicles                            *)
(***************************************************************************)
PowerAllocation(id, amps, phases) ==
    [vehicle_id |-> id, amps |-> amps, phases |-> phases]

\* sorted(vehicles, key=priority): Python's sort is stable
RECURSIVE InsertByPriority(_, _)
InsertByPriority(v, s) ==
    IF s = <<>> THEN <<v>>
    ELSE IF Head(s).priority <= v.priority
      THEN <<Head(s)>> \o InsertByPriority(v, Tail(s))
    ELSE <<v>> \o s

\* the input order kept: no sort by priority
SortedByPriority_unsorted(s) == s

RECURSIVE SortedByPriority(_)
SortedByPriority(s) ==
    IF s = <<>> THEN <<>>
    ELSE InsertByPriority(s[Len(s)], SortedByPriority(SubSeq(s, 1, Len(s) - 1)))

\* the loop with "remaining_kw -= allocated_kw" left out
RECURSIVE AllocateLoop_no_deduction(_, _, _)
AllocateLoop_no_deduction(s, remaining, fuse_size) ==
    IF s = <<>> THEN <<>>
    ELSE
      LET vehicle == Head(s)
          max_amps_from_capacity == TruncDiv(remaining, VOLTAGE * NUM_PHASES)
          amps == Min(max_amps_from_capacity, fuse_size)
      IN IF ~needs_charge(vehicle) \/ ~vehicle.is_connected
              \/ max_amps_from_capacity < MIN_CHARGING_AMPS
           THEN <<PowerAllocation(vehicle.vehicle_id, 0, NUM_PHASES)>>
                \o AllocateLoop_no_deduction(Tail(s), remaining, fuse_size)
         ELSE <<PowerAllocation(vehicle.vehicle_id, amps, NUM_PHASES)>>
                \o AllocateLoop_no_deduction(Tail(s), remaining, fuse_size)

\* the loop of allocate_power_to_vehicles over the sorted list
RECURSIVE AllocateLoop(_, _, _)
AllocateLoop(s, remaining, fuse_size) ==
    IF s = <<>> THEN <<>>
    ELSE
      LET vehicle == Head(s)
          max_amps_from_capacity == TruncDiv(remaining, VOLTAGE * NUM_PHASES)
          amps == Min(max_amps_from_capacity, fuse_size)
          allocated == RatInt(amps * VOLTAGE * NUM_PHASES)
      IN IF ~needs_charge(vehicle) \/ ~vehicle.is_connected
           THEN <<PowerAllocation(vehicle.vehicle_id, 0, NUM_PHASES)>>
                \o AllocateLoop(Tail(s), remaining, fuse_size)
         ELSE IF max_amps_from_capacity < MIN_CHARGING_AMPS
           THEN <<PowerAllocation(vehicle.vehicle_id, 0, NUM_PHASES)>>
                \o AllocateLoop(Tail(s), remaining, fuse_size)
         ELSE <<PowerAllocation(vehicle.vehicle_id, amps, NUM_PHASES)>>
                \o AllocateLoop(Tail(s), RatSub(remaining, allocated), fuse_size)

allocate_power_to_vehicles(vehicles, available_capacity, fuse_size) ==
    AllocateLoop(SortedByPriority(vehicles), available_capacity, fuse_size)

(***************************************************************************)
(* optimizer.py                                                            *)
(***************************************************************************)
RECURSIVE SeqMin(_)
SeqMin(s) ==
    IF Len(s) = 1 THEN s[1] ELSE Min(Head(s), SeqMin(Tail(s)))

\* find_cheapest_night_price, over the price values of the (start, price) pairs
find_cheapest_night_price(prices) ==
    IF prices = <<>> THEN None ELSE Some(SeqMin(prices))

OpportunityCostResult(charge, revenue, cost, reason) ==
    [should_charge_now |-> charge, export_revenue |-> revenue,
     night_charge_cost |-> cost, reason |-> reason]

\* evaluate_opportunity_cost deferring on a tie (>= instead of >)
evaluate_opportunity_cost_tie_defers(current_export_price, cheapest_night_import_price, grid_fee_import, grid_fee_export, export_compensation, vat_rate) ==
    LET export_revenue ==
            (current_export_price + export_compensation - grid_fee_export) * 100
        night_charge_cost ==
            (cheapest_night_import_price[1] + grid_fee_import) * (100 + vat_rate)
    IN IF cheapest_night_import_price = None
         THEN OpportunityCostResult(TRUE, export_revenue, 0,
                                    "no_night_prices_available")
       ELSE IF export_revenue >= night_charge_cost
         THEN OpportunityCostResult(FALSE, export_revenue, night_charge_cost,
                                    "export_more_profitable")
       ELSE OpportunityCostResult(TRUE, export_revenue, night_charge_cost,
                                  "charging_now_cheaper")

\* evaluate_opportunity_cost; prices and fees in 1/100, vat_rate in percent,
\* export_revenue and night_charge_cost in 1/10000
evaluate_opportunity_cost(current_export_price, cheapest_night_import_price, grid_fee_import, grid_fee_export, export_compensation, vat_rate) ==
    LET export_revenue ==
            (current_export_price + export_compensation - grid_fee_export) * 100
        night_charge_cost ==
            (cheapest_night_import_price[1] + grid_fee_import) * (100 + vat_rate)
    IN IF cheapest_night_import_price = None
         THEN OpportunityCostResult(TRUE, export_revenue, 0,
                                    "no_night_prices_available")
       ELSE IF export_revenue > night_charge_cost
         THEN OpportunityCostResult(FALSE, export_revenue, night_charge_cost,
                                    "export_more_profitable")
       ELSE OpportunityCostResult(TRUE, export_revenue, night_charge_cost,
                                  "charging_now_cheaper")

(***************************************************************************)
(* charger_handler.py: EaseeChargerStatus, EaseeChargerHandler.verify_state*)
(***************************************************************************)
VERIFY_MAX_RETRIES == 3
VERIFY_RETRY_DELAY_S == 2

\* the keys of the expected dict and of a state's attributes; a dict maps
\* each key to None (key absent) or Some(value)
ChargerStatuses == {"charging", "standby", "awaiting_smart_charging", "STANDBY"}

\* str.lower() on the statuses of the model
Lower(status) == IF status = "STANDBY" THEN "standby" ELSE status

\* EaseeChargerStatus.is_blocking
is_blocking(status) == Lower(status) \in {"awaiting_smart_charging", "standby"}

\* state.attributes.get(key, state.state if key == "status" else None)
ActualValue(state, key) ==
    IF state.attributes[key] # None THEN state.attributes[key]
    ELSE IF key = "status" THEN Some(state.state)
    ELSE None

\* every expected value accepted without a look at the state
all_match_unchecked(expected, state) == TRUE

\* the inner loop: all_match stays True when no expected key differs
all_match(expected, state) ==
    \A key \in DOMAIN expected :
        expected[key] # None => ActualValue(state, key) = expected[key]

\* a verify_state call before its first sleep
VerifyCall(expected, timeout_s) ==
    [called |-> TRUE, expected |-> expected, timeout_s |-> timeout_s,
     attempt |-> 0, reads |-> <<>>, slept |-> 0, result |-> None]

\* no call made yet
NoVerify ==
    [VerifyCall([status |-> None, dynamic_limit |-> None], 0) EXCEPT
        !.called = FALSE]

\* one pass of the loop body of verify_state on the call v: the sleep, then
\* the read that yields entity (None: no such entity); the return after the
\* loop follows the last pass without another await
verify_pass(v, entity) ==
    LET w == [v EXCEPT
                 !.slept = @ + (IF v.attempt = 0 THEN v.timeout_s
                                ELSE VERIFY_RETRY_DELAY_S),
                 !.reads = Append(@, entity)]
        next == [w EXCEPT
                    !.attempt = @ + 1,
                    !.result = IF v.attempt + 1 = VERIFY_MAX_RETRIES
                                 THEN Some(FALSE) ELSE None]
    IN IF entity = None THEN [w EXCEPT !.result = Some(FALSE)]
       ELSE IF is_blocking(entity[1].state) THEN next
       ELSE IF all_match(v.expected, entity[1])
         THEN [w EXCEPT !.result = Some(TRUE)]
       ELSE next

(***************************************************************************)
(* State                                                                   *)
(***************************************************************************)
VARIABLES
    hass,                   \* hass.states: what the configured entities report
    config,                 \* coordinator._config: [power_limit_kw, vehicles]
    utc_now,                \* wall clock (_utcnow): hours since an epoch midnight
    wall_steps,             \* wall-clock advances so far (bounds the model)
    monotonic,              \* time.monotonic(), seconds
    mono_steps,             \* monotonic advances so far (bounds the model)
    tracker,                \* CalendarHourTracker: [samples, current_hour]
    sample_times,           \* history: the utc_now at which each retained sample was added
    sample_log,             \* history: every add_sample call so far, [at, watts]
    cooldowns,              \* OBCCooldownTracker._cooldowns: charger id -> start
    last_started,           \* history: charger id -> time of its latest start_cooldown call
    force_charge_vehicles,  \* coordinator._force_charge_vehicles
    pause_all,              \* coordinator._pause_all
    verify,                 \* the locals of a verify_state call in flight
    data,                   \* coordinator.data: the latest result snapshot
    cycle,                  \* the locals of the latest run_decision_pipeline call
    probe                   \* a direct call of one function: [fn, args, done, result]

vars == <<hass, config, utc_now, wall_steps, monotonic, mono_steps, tracker,
          sample_times, sample_log, cooldowns, last_started,
          force_charge_vehicles, pause_all, verify, data, cycle,
          probe>>

clockVars == <<utc_now, wall_steps, monotonic, mono_steps>>
trackerVars == <<tracker, sample_times, sample_log>>
cooldownVars == <<cooldowns, last_started>>
resultVars == <<data, cycle>>

(***************************************************************************)
(* coordinator.py: run_decision_pipeline                                   *)
(***************************************************************************)
\* the write loops left out: every vehicle keeps the allocation it came with
ZeroAllocations_skipped(vs, ids) == vs

\* the two write loops "for v in ...: v.allocated_amps = 0; v.allocated_phases = 1"
\* applied to the vehicles of list vs whose id is in ids
ZeroAllocations(vs, ids) ==
    [i \in 1..Len(vs) |->
        IF vs[i].vehicle_id \in ids
          THEN [vs[i] EXCEPT !.allocated_amps = 0, !.allocated_phases = 1]
          ELSE vs[i]]

\* the write-back without the test of the vehicle id
RECURSIVE WriteBack_any_id(_, _)
WriteBack_any_id(vs, allocs) ==
    IF allocs = <<>> THEN vs
    ELSE LET alloc == Head(allocs)
             written == [i \in 1..Len(vs) |->
                 [vs[i] EXCEPT !.allocated_amps = alloc.amps,
                               !.allocated_phases = alloc.phases]]
         IN WriteBack_any_id(written, Tail(allocs))

\* "for alloc in allocs: for v in ctx.vehicles: if v.vehicle_id == alloc.vehicle_id"
RECURSIVE WriteBack(_, _)
WriteBack(vs, allocs) ==
    IF allocs = <<>> THEN vs
    ELSE LET alloc == Head(allocs)
             written == [i \in 1..Len(vs) |->
                 IF vs[i].vehicle_id = alloc.vehicle_id
                   THEN [vs[i] EXCEPT !.allocated_amps = alloc.amps,
                                      !.allocated_phases = alloc.phases]
                   ELSE vs[i]]
         IN WriteBack(written, Tail(allocs))

\* "available_kw -= (alloc.amps * 230) / 1000.0" for each alloc of the forced pass
RECURSIVE DeductForced(_, _)
DeductForced(available, allocs) ==
    IF allocs = <<>> THEN available
    ELSE DeductForced(RatSub(available, RatInt(Head(allocs).amps * VOLTAGE)),
                      Tail(allocs))

\* " | ".join(parts)
\* the parts joined with a comma
RECURSIVE JoinReason_comma(_)
JoinReason_comma(parts) ==
    IF Len(parts) = 1 THEN parts[1]
    ELSE parts[1] \o ", " \o JoinReason_comma(Tail(parts))

RECURSIVE JoinReason(_)
JoinReason(parts) ==
    IF Len(parts) = 1 THEN parts[1]
    ELSE parts[1] \o " | " \o JoinReason(Tail(parts))

IdsOf(vs) == {vs[i].vehicle_id : i \in 1..Len(vs)}

\* _build_result: the snapshot for context c, tracker tr, vehicle list vs
build_result(c, tr, vs, cheapest_night, reason) ==
    [grid_power_w |-> c.grid_power_w,
     battery_power_w |-> c.battery_power_w,
     grid_rewards_active |-> c.grid_rewards_active,
     grid_meter_available |-> c.grid_meter_available,
     current_export_price |-> c.current_export_price,
     cheapest_night_price |-> cheapest_night,
     grid_fee_import |-> c.grid_fee_import,
     grid_fee_export |-> c.grid_fee_export,
     export_compensation |-> c.export_compensation,
     vat_rate |-> c.vat_rate,
     calendar_hour_avg_kw |-> average_kw(tr),
     available_capacity_kw |-> available_capacity_kw(tr, c.power_limit_kw),
     power_limit_kw |-> c.power_limit_kw,
     vehicles |-> vs,
     decision_reason |-> reason,
     opportunity_export_revenue |-> 0,
     opportunity_night_cost |-> 0]

\* step 2 taking the capacity from the coordinator's previous snapshot
StageCapacity_from_snapshot(s, tr, power_limit_w) == data.available_capacity_kw

\* step 2 without the safe-mode branch
StageCapacity_no_safe_mode(s, tr, power_limit_w) ==
    available_capacity_kw(tr, power_limit_w)

\* Step 2, "if safety.safe_mode: available_kw = (safety.max_amps * 230) / 1000.0
\* else: available_kw = tracker.available_capacity_kw(ctx.power_limit_kw)"
StageCapacity(s, tr, power_limit_w) ==
    IF s.safe_mode THEN Rat(s.max_amps[1] * VOLTAGE, 1)
    ELSE available_capacity_kw(tr, power_limit_w)

\* The steps of run_decision_pipeline after the safety stage, for context c
\* whose safety result s allows charging, tr the tracker after add_sample.
\* Yields the locals of the call.
PipelineStages(c, s, tr) ==
    LET available_kw == StageCapacity(s, tr, c.power_limit_kw)
        IsForced(v) == v.vehicle_id \in c.force_charge_vehicles
        IsNormal(v) == v.vehicle_id \notin c.force_charge_vehicles
        force_vehicles == SelectSeq(c.vehicles, IsForced)
        normal_vehicles == SelectSeq(c.vehicles, IsNormal)
        force_alloc ==
            IF force_vehicles # <<>>
              THEN allocate_power_to_vehicles(force_vehicles, available_kw,
                                              DEFAULT_FUSE_SIZE)
              ELSE <<>>
        after_force == WriteBack(c.vehicles, force_alloc)
        available_after == DeductForced(available_kw, force_alloc)
        parts1 == IF force_vehicles # <<>> THEN <<"force_charge">> ELSE <<>>
        opp_result == evaluate_opportunity_cost(
            c.current_export_price, find_cheapest_night_price(c.night_prices),
            c.grid_fee_import, c.grid_fee_export, c.export_compensation,
            c.vat_rate)
        remaining_kw == RatMax0(available_after)
        normal_alloc ==
            IF opp_result.should_charge_now /\ normal_vehicles # <<>>
              THEN allocate_power_to_vehicles(normal_vehicles, remaining_kw,
                                              DEFAULT_FUSE_SIZE)
              ELSE <<>>
        final_vehicles ==
            IF opp_result.should_charge_now /\ normal_vehicles # <<>>
              THEN WriteBack(after_force, normal_alloc)
            ELSE IF normal_vehicles # <<>>
              THEN ZeroAllocations(after_force, IdsOf(normal_vehicles))
            ELSE after_force
        reason_parts ==
            IF normal_vehicles # <<>> THEN Append(parts1, opp_result.reason)
            ELSE parts1
        reason == IF reason_parts # <<>> THEN JoinReason(reason_parts)
                  ELSE opp_result.reason
    IN [available_kw |-> available_kw,
        force_alloc |-> force_alloc,
        normal_alloc |-> normal_alloc,
        opp_result |-> opp_result,
        vehicles |-> final_vehicles,
        reason |-> reason]

\* the blocked branch recording a sample before it returns
BlockedOutcome_sampling(c, tr, now, safety, cheapest_night) ==
    LET sampled == add_sample(tr, c.grid_power_w, now)
    IN [safety |-> safety, allowed |-> FALSE,
        data |-> build_result(c, sampled,
                              ZeroAllocations(c.vehicles, IdsOf(c.vehicles)),
                              cheapest_night, safety.reason),
        tracker |-> sampled,
        available_kw |-> Rat(0, 1),
        force_alloc |-> <<>>, normal_alloc |-> <<>>,
        opp_result |-> OpportunityCostResult(TRUE, 0, 0, "")]

\* "if not safety.allow_charging": zero every vehicle and return
\* _build_result(ctx, cheapest_night, safety.reason); the tracker tr is not
\* touched (now is the wall-clock time of the call)
BlockedOutcome(c, tr, now, safety, cheapest_night) ==
    [safety |-> safety, allowed |-> FALSE,
     data |-> build_result(c, tr,
                           ZeroAllocations(c.vehicles, IdsOf(c.vehicles)),
                           cheapest_night, safety.reason),
     tracker |-> tr,
     available_kw |-> Rat(0, 1),
     force_alloc |-> <<>>, normal_alloc |-> <<>>,
     opp_result |-> OpportunityCostResult(TRUE, 0, 0, "")]

\* the stages run on the tracker as it was before this cycle's sample
AllowedOutcome_capacity_before_sample(c, tr, now, safety, cheapest_night) ==
    LET sampled == add_sample(tr, c.grid_power_w, now)
        st == PipelineStages(c, safety, tr)
    IN [safety |-> safety, allowed |-> TRUE,
        data |-> [build_result(c, sampled, st.vehicles, cheapest_night,
                               st.reason)
                    EXCEPT !.opportunity_export_revenue =
                               st.opp_result.export_revenue,
                           !.opportunity_night_cost =
                               st.opp_result.night_charge_cost],
        tracker |-> sampled,
        available_kw |-> st.available_kw,
        force_alloc |-> st.force_alloc, normal_alloc |-> st.normal_alloc,
        opp_result |-> st.opp_result]

\* steps 2 to 4: add the sample at wall-clock time now, run the stages, build
\* the result and set its two cost figures
AllowedOutcome(c, tr, now, safety, cheapest_night) ==
    LET sampled == add_sample(tr, c.grid_power_w, now)
        st == PipelineStages(c, safety, sampled)
    IN [safety |-> safety, allowed |-> TRUE,
        data |-> [build_result(c, sampled, st.vehicles, cheapest_night,
                               st.reason)
                    EXCEPT !.opportunity_export_revenue =
                               st.opp_result.export_revenue,
                           !.opportunity_night_cost =
                               st.opp_result.night_charge_cost],
        tracker |-> sampled,
        available_kw |-> st.available_kw,
        force_alloc |-> st.force_alloc, normal_alloc |-> st.normal_alloc,
        opp_result |-> st.opp_result]

\* run_decision_pipeline(ctx) as a function of what it reads: the context c,
\* the calendar-hour tracker tr, the cooldown dict cd, time.monotonic() = mono
\* and _utcnow() = now.  Yields the snapshot returned, the tracker afterwards
\* and the locals of the call.
PipelineOutcome(c, tr, cd, mono, now) ==
    LET cheapest_night == find_cheapest_night_price(c.night_prices)
        any_obc_active ==
            \E i \in 1..Len(c.vehicles) :
                is_active(cd, mono, c.vehicles[i].charger_entity_id)
        safety == evaluate(c.grid_rewards_active, c.battery_power_w,
                           c.grid_meter_available, any_obc_active)
    IN IF ~safety.allow_charging
         THEN BlockedOutcome(c, tr, now, safety, cheapest_night)
         ELSE AllowedOutcome(c, tr, now, safety, cheapest_night)

\* run_decision_pipeline(ctx) for the context c, called at the current times
\* on the coordinator's tracker and cooldown dict
run_decision_pipeline(c) ==
    LET reset == tracker.current_hour # None
                 /\ HourOf(utc_now) # tracker.current_hour[1]
    IN \E o \in {PipelineOutcome(c, tracker, cooldowns, monotonic, utc_now)} :
       /\ data' = o.data
       /\ tracker' = o.tracker
       /\ sample_times' =
             IF o.allowed
               THEN Append(IF reset THEN <<>> ELSE sample_times, utc_now)
               ELSE sample_times
       /\ sample_log' =
             IF o.allowed
               THEN Append(sample_log,
                           [at |-> utc_now, watts |-> c.grid_power_w])
               ELSE sample_log
       /\ cycle' = [stage |-> IF o.allowed THEN "done" ELSE "blocked",
                    safety |-> o.safety,
                    at_monotonic |-> monotonic, started |-> last_started,
                    force_ids |-> c.force_charge_vehicles,
                    available_kw |-> o.available_kw,
                    force_alloc |-> o.force_alloc,
                    normal_alloc |-> o.normal_alloc,
                    opp_result |-> o.opp_result]

(***************************************************************************)
(* coordinator.py: SmartEVOptimizerCoordinator._async_update_data          *)
(***************************************************************************)
\* A sensor state: a number, or one of the states without a reading.
Number(x) == [kind |-> "number", value |-> x]
Unavailable == [kind |-> "unavailable", value |-> 0]
\* hass.states.get yields None; the states 'unknown' and ''; a text that
\* float() rejects (ValueError)
Missing == [kind |-> "missing", value |-> 0]
Unknown == [kind |-> "unknown", value |-> 0]
Empty == [kind |-> "empty", value |-> 0]
Text == [kind |-> "text", value |-> 0]

\* _read_float(entity_id) with the default 0.0: the default for a missing
\* state, for 'unavailable', 'unknown', '' and when float() raises
read_float(state) == IF state.kind = "number" THEN state.value ELSE 0

\* "grid_state is not None and grid_state.state not in (unavailable, unknown, '')"
MeterAvailable(state) ==
    state.kind \notin {"missing", "unavailable", "unknown", "empty"}

FreshAllocation == [amps |-> 0, phases |-> 1]
\* an allocation no cycle produces
StaleAllocation == [amps |-> 32, phases |-> 2]
EntryAllocations == {FreshAllocation, StaleAllocation}

\* build_vehicle_state for each configured vehicle from its sensors r[i]; the
\* coordinator always passes fresh VehicleStates, a direct caller of
\* run_decision_pipeline may pass ones that carry an allocation (entry)
BuildVehicles(cfg, r, entry) ==
    [i \in 1..Len(cfg) |->
        VehicleState(cfg[i].vehicle_id, cfg[i].priority, cfg[i].target_soc,
                     r[i].current_soc, r[i].is_connected,
                     cfg[i].charger_entity_id, entry.amps, entry.phases)]

\* the PipelineContext built from the sensors h; fees and VAT are those of the
\* configuration used by the repository's tests
PipelineContext(h, cfg, forced, entry) ==
    [grid_power_w |-> read_float(h.grid_sensor),
     battery_power_w |-> read_float(h.battery_power_sensor),
     grid_rewards_active |-> h.grid_rewards,
     grid_meter_available |-> MeterAvailable(h.grid_sensor),
     current_export_price |-> h.nordpool.current_price,
     night_prices |-> h.nordpool.night_prices,
     grid_fee_import |-> 40, grid_fee_export |-> 5,
     export_compensation |-> 10, vat_rate |-> 25,
     power_limit_kw |-> cfg.power_limit_kw,
     vehicles |-> BuildVehicles(cfg.vehicles, h.vehicles, entry),
     force_charge_vehicles |-> forced]

\* the coordinator's own fields, as _async_update_data sees them through self
Self(forced, paused) ==
    [hass |-> hass, config |-> config, force_charge_vehicles |-> forced,
     pause_all |-> paused]

\* a context that honours the pause-all flag: no vehicle connected while set
CoordinatorContext_honours_pause(self, entry) ==
    LET c == PipelineContext(self.hass, self.config,
                             self.force_charge_vehicles, entry)
    IN IF self.pause_all
         THEN [c EXCEPT !.vehicles =
                 [i \in 1..Len(c.vehicles) |->
                     [c.vehicles[i] EXCEPT !.is_connected = FALSE]]]
       ELSE c

\* the context _async_update_data builds from self: of the two switch fields
\* it passes _force_charge_vehicles and does not read _pause_all
CoordinatorContext(self, entry) ==
    PipelineContext(self.hass, self.config, self.force_charge_vehicles, entry)

\* One refresh with the force-charge set forced.
Refresh(forced) ==
    /\ Len(tracker.samples) < MaxSamples
    /\ \E entry \in EntryAllocations :
          run_decision_pipeline(PipelineContext(hass, config, forced, entry))

\* One polling cycle: read the sensors, build the context, run the pipeline.
Cycle ==
    /\ Refresh(force_charge_vehicles)
    /\ UNCHANGED <<hass, config, verify, pause_all, clockVars, cooldownVars,
                   force_charge_vehicles, probe>>

(***************************************************************************)
(* switch.py: SEOForceChargeSwitchEntity                                   *)
(***************************************************************************)
\* async_turn_on: add the id, then async_request_refresh
ForceChargeOn ==
    /\ \E i \in 1..Len(config.vehicles) :
          /\ force_charge_vehicles' =
                force_charge_vehicles \cup {config.vehicles[i].vehicle_id}
          /\ Refresh(force_charge_vehicles')
    /\ UNCHANGED <<hass, config, verify, pause_all,
                   clockVars, cooldownVars, probe>>

\* async_turn_off: discard the id, then async_request_refresh
ForceChargeOff ==
    /\ \E i \in 1..Len(config.vehicles) :
          /\ force_charge_vehicles' =
                force_charge_vehicles \ {config.vehicles[i].vehicle_id}
          /\ Refresh(force_charge_vehicles')
    /\ UNCHANGED <<hass, config, verify, pause_all,
                   clockVars, cooldownVars, probe>>

(***************************************************************************)
(* safety.py: OBCCooldownTracker.start_cooldown, and the clocks            *)
(***************************************************************************)
ChargerIds == 1..NumVehicles

StartCooldown ==
    /\ \E ch \in ChargerIds :
          /\ cooldowns' = start_cooldown(cooldowns, monotonic, ch)
          /\ last_started' =
                [k \in (DOMAIN last_started) \cup {ch} |->
                    IF k = ch THEN monotonic ELSE last_started[k]]
    /\ UNCHANGED <<hass, config, verify, pause_all, clockVars, trackerVars,
                   force_charge_vehicles, resultVars, probe>>

AdvanceMonotonic ==
    /\ mono_steps < MaxMonoSteps
    /\ \E d \in MonoAdvances : monotonic' = monotonic + d
    /\ mono_steps' = mono_steps + 1
    /\ UNCHANGED <<hass, config, verify, pause_all,
                   utc_now, wall_steps, trackerVars,
                   cooldownVars, force_charge_vehicles, resultVars, probe>>

AdvanceWallClock ==
    /\ wall_steps < MaxWallSteps
    /\ \E d \in WallAdvances : utc_now' = utc_now + d
    /\ wall_steps' = wall_steps + 1
    /\ UNCHANGED <<hass, config, verify, pause_all,
                   monotonic, mono_steps, trackerVars,
                   cooldownVars, force_charge_vehicles, resultVars, probe>>

(***************************************************************************)
(* Initial state: the coordinator after __init__                           *)
(***************************************************************************)
VehicleConfig(id, prio) ==
    [vehicle_id |-> id, priority |-> prio, target_soc |-> 80,
     charger_entity_id |-> id]

\* the configured vehicle lists: up to NumVehicles vehicles, any priorities
VehicleConfigs ==
    UNION {{[i \in 1..n |-> VehicleConfig(i, p[i])] : p \in [1..n -> Priorities]}
             : n \in 0..NumVehicles}

Configs == [power_limit_kw : {11000}, vehicles : VehicleConfigs]

GridSensorStates == {Number(0), Number(5000), Unavailable}
BatterySensorStates == {Number(-500), Number(0)}
NordpoolStates ==
    {[current_price |-> 10, night_prices |-> <<>>],
     [current_price |-> 10, night_prices |-> <<80, 20>>],
     [current_price |-> 200, night_prices |-> <<80, 20>>]}
\* disconnected; connected with unknown SoC, below target, at target
VehicleSensorStates ==
    {[current_soc |-> Some(50), is_connected |-> FALSE],
     [current_soc |-> None, is_connected |-> TRUE],
     [current_soc |-> Some(50), is_connected |-> TRUE],
     [current_soc |-> Some(80), is_connected |-> TRUE]}

\* what the entities of a configuration cfg may report
HassStates(cfg) ==
    [grid_sensor : GridSensorStates,
     battery_power_sensor : BatterySensorStates,
     grid_rewards : BOOLEAN,
     nordpool : NordpoolStates,
     vehicles : [1..Len(cfg.vehicles) -> VehicleSensorStates]]

NoCycle ==
    [stage |-> "none", safety |-> SafetyResult(TRUE, "", FALSE, None),
     at_monotonic |-> 0, started |-> <<>>,
     force_ids |-> {}, available_kw |-> Rat(0, 1),
     force_alloc |-> <<>>, normal_alloc |-> <<>>,
     opp_result |-> OpportunityCostResult(TRUE, 0, 0, "")]

NoProbe == [fn |-> "", args |-> <<>>, done |-> FALSE, result |-> <<>>]

\* build_initial_data
build_initial_data(power_limit_kw) ==
    [grid_power_w |-> 0, battery_power_w |-> 0,
     grid_rewards_active |-> FALSE, grid_meter_available |-> TRUE,
     current_export_price |-> 0, cheapest_night_price |-> None,
     grid_fee_import |-> 0, grid_fee_export |-> 0,
     export_compensation |-> 0, vat_rate |-> 25,
     calendar_hour_avg_kw |-> Rat(0, 1),
     available_capacity_kw |-> Rat(0, 1),
     power_limit_kw |-> power_limit_kw,
     vehicles |-> <<>>,
     decision_reason |-> "initialized",
     opportunity_export_revenue |-> 0,
     opportunity_night_cost |-> 0]

\* the coordinator after __init__ with configuration config, at 10:00 of day 0
Constructed ==
    /\ utc_now = 10
    /\ wall_steps = 0
    /\ monotonic = 0
    /\ mono_steps = 0
    /\ tracker = [samples |-> <<>>, current_hour |-> None]
    /\ sample_times = <<>>
    /\ sample_log = <<>>
    /\ cooldowns = <<>>
    /\ last_started = <<>>
    /\ force_charge_vehicles = {}
    /\ pause_all = FALSE
    /\ verify = NoVerify
    /\ data = build_initial_data(config.power_limit_kw)
    /\ cycle = NoCycle

(***************************************************************************)
(* Spec: the coordinator polling, the force-charge switches, cooldowns     *)
(***************************************************************************)
Init ==
    /\ config \in Configs
    /\ hass \in HassStates(config)
    /\ Constructed
    /\ probe = NoProbe

Next ==
    \/ Cycle
    \/ ForceChargeOn
    \/ ForceChargeOff
    \/ StartCooldown

Spec == Init /\ [][Next]_vars

(***************************************************************************)
(* SpecSafety: SafetyCheck.evaluate called directly on every input         *)
(***************************************************************************)
NoConfig == [power_limit_kw |-> 11000, vehicles |-> <<>>]
NoHass ==
    [grid_sensor |-> Number(0), battery_power_sensor |-> Number(0),
     grid_rewards |-> FALSE,
     nordpool |-> [current_price |-> 10, night_prices |-> <<>>],
     vehicles |-> <<>>]

BatteryProbeValues == {-1000, -500, -1, 0, 1, 500, 1000}
SafetyArgs ==
    [grid_rewards_active : BOOLEAN, battery_power_w : BatteryProbeValues,
     grid_meter_available : BOOLEAN, obc_cooldown_active : BOOLEAN]

InitSafety ==
    /\ config = NoConfig
    /\ hass = NoHass
    /\ Constructed
    /\ probe \in [fn : {"evaluate"}, args : SafetyArgs, done : {FALSE},
                  result : {<<>>}]

CallEvaluate ==
    /\ probe.fn = "evaluate"
    /\ ~probe.done
    /\ probe' = [probe EXCEPT
                    !.done = TRUE,
                    !.result = evaluate(probe.args.grid_rewards_active,
                                        probe.args.battery_power_w,
                                        probe.args.grid_meter_available,
                                        probe.args.obc_cooldown_active)]
    /\ UNCHANGED <<hass, config, verify, pause_all,
                   clockVars, trackerVars, cooldownVars,
                   force_charge_vehicles, resultVars>>

NextSafety == CallEvaluate

SpecSafety == InitSafety /\ [][NextSafety]_vars

(***************************************************************************)
(* SpecTracker: CalendarHourTracker.add_sample called at arbitrary times   *)
(***************************************************************************)
SampleValues == {0, 5000}

InitTracker ==
    /\ config = NoConfig
    /\ hass = NoHass
    /\ Constructed
    /\ probe = NoProbe

\* tracker.add_sample(watts) at the current wall-clock time
AddSample ==
    /\ \/ Len(tracker.samples) < MaxSamples
       \/ tracker.current_hour # Some(HourOf(utc_now))
    /\ \E watts \in SampleValues :
          /\ tracker' = add_sample(tracker, watts, utc_now)
          /\ sample_log' = Append(sample_log, [at |-> utc_now, watts |-> watts])
    /\ sample_times' =
          Append(IF tracker.current_hour # None
                    /\ HourOf(utc_now) # tracker.current_hour[1]
                   THEN <<>> ELSE sample_times,
                 utc_now)
    /\ UNCHANGED <<hass, config, verify, pause_all, clockVars, cooldownVars,
                   force_charge_vehicles, resultVars, probe>>

NextTracker ==
    \/ AddSample
    \/ AdvanceWallClock

SpecTracker == InitTracker /\ [][NextTracker]_vars

(***************************************************************************)
(* SpecCooldown: cooldowns started and expiring between polling cycles     *)
(***************************************************************************)
\* every configured vehicle connected and below target, the grid idle
HassCooldown(cfg) ==
    [grid_sensor : {Number(0)},
     battery_power_sensor : BatterySensorStates,
     grid_rewards : BOOLEAN,
     nordpool : {[current_price |-> 10, night_prices |-> <<80, 20>>]},
     vehicles : [1..Len(cfg.vehicles) ->
                    {[current_soc |-> Some(50), is_connected |-> TRUE]}]]

InitCooldown ==
    /\ config \in Configs
    /\ hass \in HassCooldown(config)
    /\ Constructed
    /\ probe = NoProbe

NextCooldown ==
    \/ Cycle
    \/ StartCooldown
    \/ AdvanceMonotonic

SpecCooldown == InitCooldown /\ [][NextCooldown]_vars

(***************************************************************************)
(* SpecAllocator: allocate_power_to_vehicles called directly               *)
(***************************************************************************)
\* capacities in watts: negative, zero, just below and at the 6 A threshold
\* (4140 W), fractional, and enough for one or two vehicles
AllocatorCapacities ==
    {Rat(-1000, 1), Rat(0, 1), Rat(4139, 1), Rat(4140, 1), Rat(8285, 2),
     Rat(11000, 1), Rat(17250, 1), Rat(27600, 1)}

\* values of the fuse_size parameter
FuseSizes == {-1, 0, 5, 6, 16, DEFAULT_FUSE_SIZE}

\* the vehicle lists a caller may pass: any configured list with any sensor
\* readings, in any order
AllocatorVehicleLists ==
    UNION {{[i \in 1..Len(cfg) |->
                BuildVehicles(cfg, r, FreshAllocation)[p[i]]] :
              r \in [1..Len(cfg) -> VehicleSensorStates],
              p \in Permutations(1..Len(cfg))}
           : cfg \in VehicleConfigs}

AllocatorArgs ==
    [vehicles : AllocatorVehicleLists,
     available_capacity_kw : AllocatorCapacities,
     fuse_size : FuseSizes]

InitAllocator ==
    /\ config = NoConfig
    /\ hass = NoHass
    /\ Constructed
    /\ probe \in [fn : {"allocate_power_to_vehicles"}, args : AllocatorArgs,
                  done : {FALSE}, result : {<<>>}]

CallAllocate ==
    /\ probe.fn = "allocate_power_to_vehicles"
    /\ ~probe.done
    /\ probe' = [probe EXCEPT
                    !.done = TRUE,
                    !.result = allocate_power_to_vehicles(
                                   probe.args.vehicles,
                                   probe.args.available_capacity_kw,
                                   probe.args.fuse_size)]
    /\ UNCHANGED <<hass, config, verify, pause_all,
                   clockVars, trackerVars, cooldownVars,
                   force_charge_vehicles, resultVars>>

NextAllocator == CallAllocate

SpecAllocator == InitAllocator /\ [][NextAllocator]_vars

(***************************************************************************)
(* SpecOptimizer: evaluate_opportunity_cost called directly                *)
(***************************************************************************)
\* prices and fees in 1/100, the VAT rate in percent
OptimizerArgs ==
    [current_export_price : {0, 50, 100, 200},
     cheapest_night_import_price : {None, Some(0), Some(20), Some(80)},
     grid_fee_import : {0, 40},
     grid_fee_export : {0, 5},
     export_compensation : {0, 10},
     vat_rate : {0, 25}]

InitOptimizer ==
    /\ config = NoConfig
    /\ hass = NoHass
    /\ Constructed
    /\ probe \in [fn : {"evaluate_opportunity_cost"}, args : OptimizerArgs,
                  done : {FALSE}, result : {<<>>}]

CallEvaluateOpportunityCost ==
    /\ probe.fn = "evaluate_opportunity_cost"
    /\ ~probe.done
    /\ probe' = [probe EXCEPT
                    !.done = TRUE,
                    !.result = evaluate_opportunity_cost(
                                   probe.args.current_export_price,
                                   probe.args.cheapest_night_import_price,
                                   probe.args.grid_fee_import,
                                   probe.args.grid_fee_export,
                                   probe.args.export_compensation,
                                   probe.args.vat_rate)]
    /\ UNCHANGED <<hass, config, verify, pause_all,
                   clockVars, trackerVars, cooldownVars,
                   force_charge_vehicles, resultVars>>

NextOptimizer == CallEvaluateOpportunityCost

SpecOptimizer == InitOptimizer /\ [][NextOptimizer]_vars

(***************************************************************************)
(* SpecCapacity: CalendarHourTracker.available_capacity_kw called on a     *)
(* tracker with any sample history of the current hour                     *)
(***************************************************************************)
\* samples in watts: net export, idle, import, import above every limit
CapacitySamples == {-3000, 0, 5000, 12000}
\* values of power_limit_kw, in watts
CapacityLimits == {0, 2000, 11000}

\* the sample lists of up to MaxSamples add_sample calls
CapacityHistories ==
    UNION {[1..n -> CapacitySamples] : n \in 0..MaxSamples}

InitCapacity ==
    /\ config = NoConfig
    /\ hass = NoHass
    /\ utc_now = 10
    /\ wall_steps = 0
    /\ monotonic = 0
    /\ mono_steps = 0
    /\ \E h \in CapacityHistories :
          /\ tracker = [samples |-> h,
                        current_hour |-> IF h = <<>> THEN None
                                         ELSE Some(HourOf(utc_now))]
          /\ sample_times = [i \in 1..Len(h) |-> utc_now]
          /\ sample_log = [i \in 1..Len(h) |-> [at |-> utc_now, watts |-> h[i]]]
    /\ cooldowns = <<>>
    /\ last_started = <<>>
    /\ force_charge_vehicles = {}
    /\ pause_all = FALSE
    /\ verify = NoVerify
    /\ data = build_initial_data(config.power_limit_kw)
    /\ cycle = NoCycle
    /\ probe \in [fn : {"available_capacity_kw"},
                  args : [power_limit_kw : CapacityLimits],
                  done : {FALSE}, result : {<<>>}]

CallAvailableCapacity ==
    /\ probe.fn = "available_capacity_kw"
    /\ ~probe.done
    /\ probe' = [probe EXCEPT
                    !.done = TRUE,
                    !.result = available_capacity_kw(
                                   tracker, probe.args.power_limit_kw)]
    /\ UNCHANGED <<hass, config, verify, pause_all,
                   clockVars, trackerVars, cooldownVars,
                   force_charge_vehicles, resultVars>>

NextCapacity == CallAvailableCapacity

SpecCapacity == InitCapacity /\ [][NextCapacity]_vars

(***************************************************************************)
(* SpecRerun: polling cycles whose inputs are recorded, between cooldown   *)
(* starts and advances of both clocks                                      *)
(***************************************************************************)
\* the configuration with one vehicle, of priority 1
RerunConfigs ==
    {cfg \in Configs :
        Len(cfg.vehicles) = 1 /\ cfg.vehicles[1].priority = 1}

\* every configured vehicle connected and below target, the grid importing,
\* no grid rewards, charging now cheaper
HassRerun(cfg) ==
    [grid_sensor : {Number(5000)},
     battery_power_sensor : {Number(-500)},
     grid_rewards : {FALSE},
     nordpool : {[current_price |-> 10, night_prices |-> <<80, 20>>]},
     vehicles : [1..Len(cfg.vehicles) ->
                    {[current_soc |-> Some(50), is_connected |-> TRUE]}]]

InitRerun ==
    /\ config \in RerunConfigs
    /\ hass \in HassRerun(config)
    /\ Constructed
    /\ probe = NoProbe

\* One refresh with the force-charge set forced; probe keeps what the call
\* of run_decision_pipeline was given and read.
RecordedRefresh(forced) ==
    /\ Len(sample_log) < MaxSamples
    /\ \E entry \in EntryAllocations :
          LET c == PipelineContext(hass, config, forced, entry)
          IN /\ run_decision_pipeline(c)
             /\ probe' = [fn |-> "run_decision_pipeline",
                          args |-> [ctx |-> c, tracker |-> tracker,
                                    cooldowns |-> cooldowns,
                                    monotonic |-> monotonic,
                                    utc_now |-> utc_now],
                          done |-> TRUE, result |-> <<>>]

RecordedCycle ==
    /\ RecordedRefresh(force_charge_vehicles)
    /\ UNCHANGED <<hass, config, verify, pause_all, clockVars, cooldownVars,
                   force_charge_vehicles>>

RecordedForceChargeOn ==
    /\ \E i \in 1..Len(config.vehicles) :
          /\ force_charge_vehicles' =
                force_charge_vehicles \cup {config.vehicles[i].vehicle_id}
          /\ RecordedRefresh(force_charge_vehicles')
    /\ UNCHANGED <<hass, config, verify, pause_all, clockVars, cooldownVars>>

NextRerun ==
    \/ RecordedCycle
    \/ RecordedForceChargeOn
    \/ StartCooldown
    \/ AdvanceMonotonic
    \/ AdvanceWallClock

SpecRerun == InitRerun /\ [][NextRerun]_vars

(***************************************************************************)
(* SpecSensors: the coordinator polling a grid sensor in every state a     *)
(* Home Assistant entity can be in                                         *)
(***************************************************************************)
SensorConfigs ==
    [power_limit_kw : {11000}, vehicles : {<<VehicleConfig(1, 1)>>}]

\* a reading, and each of the states in which _read_float returns its default
AnyGridSensorStates ==
    {Number(5000), Unavailable, Missing, Unknown, Empty, Text}

HassSensors(cfg) ==
    [grid_sensor : AnyGridSensorStates,
     battery_power_sensor : BatterySensorStates,
     grid_rewards : BOOLEAN,
     nordpool : {[current_price |-> 10, night_prices |-> <<>>]},
     vehicles : [1..Len(cfg.vehicles) -> VehicleSensorStates]]

InitSensors ==
    /\ config \in SensorConfigs
    /\ hass \in HassSensors(config)
    /\ Constructed
    /\ probe = NoProbe

NextSensors ==
    \/ Cycle
    \/ StartCooldown

SpecSensors == InitSensors /\ [][NextSensors]_vars

(***************************************************************************)
(* SpecPause: switch.py SEOPauseAllSwitchEntity.  Next to the coordinator  *)
(* runs a second one that receives the same refreshes but whose _pause_all *)
(* is never set; probe.result holds its snapshot and tracker.              *)
(***************************************************************************)
NeverPaused(d, tr) ==
    [fn |-> "_async_update_data", args |-> <<>>, done |-> FALSE,
     result |-> [data |-> d, tracker |-> tr]]

InitPause ==
    /\ config \in SensorConfigs
    /\ hass \in HassStates(config)
    /\ Constructed
    /\ probe = NeverPaused(data, tracker)

\* one refresh of both coordinators, the first with the flag paused
PausedRefresh(paused) ==
    /\ Len(tracker.samples) < MaxSamples
    /\ \E entry \in EntryAllocations :
          LET self == Self(force_charge_vehicles, paused)
              other == [self EXCEPT !.pause_all = FALSE]
          IN /\ run_decision_pipeline(CoordinatorContext(self, entry))
             /\ \E o \in {PipelineOutcome(CoordinatorContext(other, entry),
                                          probe.result.tracker, cooldowns,
                                          monotonic, utc_now)} :
                   probe' = [NeverPaused(o.data, o.tracker) EXCEPT
                                !.done = TRUE]

PolledCycle ==
    /\ PausedRefresh(pause_all)
    /\ UNCHANGED <<hass, config, verify, pause_all, clockVars, cooldownVars,
                   force_charge_vehicles>>

\* async_turn_on: set the flag, then async_request_refresh
PauseAllOn ==
    /\ pause_all' = TRUE
    /\ PausedRefresh(pause_all')
    /\ UNCHANGED <<hass, config, verify, clockVars, cooldownVars,
                   force_charge_vehicles>>

\* async_turn_off: clear the flag, then async_request_refresh
PauseAllOff ==
    /\ pause_all' = FALSE
    /\ PausedRefresh(pause_all')
    /\ UNCHANGED <<hass, config, verify, clockVars, cooldownVars,
                   force_charge_vehicles>>

NextPause ==
    \/ PolledCycle
    \/ PauseAllOn
    \/ PauseAllOff
    \/ AdvanceWallClock

SpecPause == InitPause /\ [][NextPause]_vars

(***************************************************************************)
(* SpecVerify: one verify_state call against a status entity that may      *)
(* change or disappear between the reads                                   *)
(***************************************************************************)
ExpectedDicts ==
    [status : {None, Some("charging")}, dynamic_limit : {None, Some(16)}]

TimeoutValues == {0, 5}

StatusEntityStates ==
    {None} \cup
    {Some(e) : e \in [state : ChargerStatuses,
                      attributes : [status : {None},
                                    dynamic_limit : {None, Some(6), Some(16)}]]}

InitVerify ==
    /\ config = NoConfig
    /\ hass = NoHass
    /\ Constructed
    /\ probe = NoProbe

\* verify_state(expected, timeout_s) is called
CallVerifyState ==
    /\ ~verify.called
    /\ \E expected \in ExpectedDicts, timeout_s \in TimeoutValues :
          verify' = VerifyCall(expected, timeout_s)
    /\ UNCHANGED <<hass, config, pause_all, clockVars, trackerVars,
                   cooldownVars, force_charge_vehicles, resultVars, probe>>

\* the call runs one pass of its loop
VerifyPass ==
    /\ verify.called
    /\ verify.result = None
    /\ verify.attempt < VERIFY_MAX_RETRIES
    /\ \E entity \in StatusEntityStates :
          verify' = verify_pass(verify, entity)
    /\ UNCHANGED <<hass, config, pause_all, clockVars, trackerVars,
                   cooldownVars, force_charge_vehicles, resultVars, probe>>

NextVerify ==
    \/ CallVerifyState
    \/ VerifyPass

\* the event loop resumes a sleeping call
SpecVerify ==
    InitVerify /\ [][NextVerify]_vars /\ WF_vars(CallVerifyState)
        /\ WF_vars(VerifyPass)

(***************************************************************************)
(* SpecTiers: three vehicles of distinct priority behind one power limit,  *)
(* the force-charge switches, cooldowns, polling                           *)
(***************************************************************************)
NumTierVehicles == 3

TierConfigs ==
    [power_limit_kw : {11000, 17250},
     vehicles : {[i \in 1..NumTierVehicles |-> VehicleConfig(i, i)]}]

HassTiers(cfg) ==
    [grid_sensor : {Number(0), Unavailable},
     battery_power_sensor : {Number(0)},
     grid_rewards : {FALSE},
     nordpool : {[current_price |-> 10, night_prices |-> <<>>],
                 [current_price |-> 200, night_prices |-> <<80, 20>>]},
     vehicles : [1..Len(cfg.vehicles) ->
                    {[current_soc |-> Some(50), is_connected |-> TRUE],
                     [current_soc |-> Some(80), is_connected |-> TRUE]}]]

InitTiers ==
    /\ config \in TierConfigs
    /\ hass \in HassTiers(config)
    /\ Constructed
    /\ probe = NoProbe

NextTiers ==
    \/ Cycle
    \/ ForceChargeOn
    \/ ForceChargeOff
    \/ StartCooldown

SpecTiers == InitTiers /\ [][NextTiers]_vars

(***************************************************************************)
(* SpecHours: the coordinator polling over hour boundaries, with cooldowns *)
(***************************************************************************)
HassHours(cfg) ==
    [grid_sensor : {Number(0), Number(5000)},
     battery_power_sensor : BatterySensorStates,
     grid_rewards : BOOLEAN,
     nordpool : {[current_price |-> 10, night_prices |-> <<>>]},
     vehicles : [1..Len(cfg.vehicles) -> VehicleSensorStates]]

InitHours ==
    /\ config \in SensorConfigs
    /\ hass \in HassHours(config)
    /\ Constructed
    /\ probe = NoProbe

NextHours ==
    \/ Cycle
    \/ StartCooldown
    \/ AdvanceWallClock

SpecHours == InitHours /\ [][NextHours]_vars

(***************************************************************************)
(* SpecLimit: number.py SEOPowerLimitNumber, and polling                   *)
(***************************************************************************)
\* values a user may set, in watts: below, at and above the configured limit
PowerLimitValues == {5000, 11000, 16000}

\* SEOPowerLimitNumber.native_value
native_value == data.power_limit_kw

\* async_set_native_value(value): write value into the current snapshot,
\* then async_request_refresh, whose snapshot replaces coordinator.data
async_set_native_value ==
    /\ \E value \in PowerLimitValues :
          LET written == [data EXCEPT !.power_limit_kw = value]
          IN /\ Refresh(force_charge_vehicles)
             /\ probe' = [fn |-> "async_set_native_value",
                          args |-> [value |-> value,
                                    written |-> written.power_limit_kw],
                          done |-> TRUE, result |-> <<>>]
    /\ UNCHANGED <<hass, config, verify, pause_all, clockVars, cooldownVars,
                   force_charge_vehicles>>

HassLimit(cfg) ==
    [grid_sensor : {Number(0), Number(5000)},
     battery_power_sensor : {Number(0)},
     grid_rewards : {FALSE},
     nordpool : {[current_price |-> 10, night_prices |-> <<>>]},
     vehicles : [1..Len(cfg.vehicles) -> VehicleSensorStates]]

InitLimit ==
    /\ config \in SensorConfigs
    /\ hass \in HassLimit(config)
    /\ Constructed
    /\ probe = NoProbe

NextLimit ==
    \/ Cycle
    \/ async_set_native_value
    \/ AdvanceWallClock

SpecLimit == InitLimit /\ [][NextLimit]_vars

(***************************************************************************)
(* Properties                                                              *)
(***************************************************************************)
Listed == 1..Len(data.vehicles)
Ran == cycle.stage # "none"
PassedSafety == cycle.stage = "done"
InSafeMode == PassedSafety /\ ~data.grid_meter_available
IsForcedIn(i) == data.vehicles[i].vehicle_id \in cycle.force_ids

\* connected, and the state of charge unknown or below the target
ConnectedBelowTarget(v) ==
    /\ v.is_connected
    /\ \/ v.current_soc = None
       \/ v.current_soc[1] < v.target_soc

\* grid rewards active while the battery exports
RewardsBlocking == data.grid_rewards_active /\ data.battery_power_w < 0

\* at the call, a listed vehicle's charger had its cooldown started less
\* than 30 s ago
CooldownBlocking ==
    \E i \in Listed :
        LET ch == data.vehicles[i].charger_entity_id
        IN /\ ch \in DOMAIN cycle.started
           /\ cycle.at_monotonic - cycle.started[ch] < OBC_COOLDOWN_SECONDS

OptimizerReasons ==
    {"no_night_prices_available", "export_more_profitable",
     "charging_now_cheaper"}

\* the decision reasons in which the part code occurs
ReasonsWith(code) ==
    {code}
    \cup {code \o " | " \o r : r \in OptimizerReasons \cup {"force_charge"}}
    \cup {r \o " | " \o code : r \in OptimizerReasons \cup {"force_charge"}}

RECURSIVE TotalAmps(_)
TotalAmps(vs) ==
    IF vs = <<>> THEN 0 ELSE Head(vs).allocated_amps + TotalAmps(Tail(vs))

\* C1: a cycle whose safety inputs are blocking (grid rewards active with the
\* battery exporting, or a cooldown active for a listed vehicle's charger)
\* leaves every listed vehicle with 0 amps on 1 phase.
C1_BlockedCycleZeroesEveryVehicle ==
    (Ran /\ (RewardsBlocking \/ CooldownBlocking)) =>
        \A i \in Listed :
            /\ data.vehicles[i].allocated_amps = 0
            /\ data.vehicles[i].allocated_phases = 1

\* C1 witness: a cooldown-blocked cycle over two vehicles of different
\* priority, one of them force-charged and in need of charge.
C1_Witness ==
    /\ cycle.stage = "blocked"
    /\ CooldownBlocking /\ ~RewardsBlocking
    /\ Len(data.vehicles) = 2
    /\ data.vehicles[1].priority # data.vehicles[2].priority
    /\ \E i \in Listed : IsForcedIn(i) /\ ConnectedBelowTarget(data.vehicles[i])
    /\ \E i \in Listed : ~IsForcedIn(i)

\* C2 (as claimed): in a cycle that passed safety the three-phase power of all
\* allocations together does not exceed the capacity computed in stage 2.
C2_TotalWithinStageCapacity ==
    PassedSafety =>
        RatLeq(RatInt(TotalAmps(data.vehicles) * VOLTAGE * NUM_PHASES),
               cycle.available_kw)

\* C3 (as claimed): in a safe-mode cycle with a force-charged vehicle that
\* needs charge, or with the optimizer recommending to charge now and a normal
\* vehicle that needs charge, some vehicle is allocated a positive current.
C3_SafeModeStillCharges ==
    (/\ InSafeMode
     /\ \/ \E i \in Listed :
              IsForcedIn(i) /\ ConnectedBelowTarget(data.vehicles[i])
        \/ /\ cycle.opp_result.should_charge_now
           /\ \E i \in Listed :
                 ~IsForcedIn(i) /\ ConnectedBelowTarget(data.vehicles[i]))
    => \E i \in Listed : data.vehicles[i].allocated_amps > 0

\* C4: in a safe-mode cycle no vehicle is allocated more than 6 A.
C4_SafeModeAtMostSixAmps ==
    InSafeMode =>
        \A i \in Listed : data.vehicles[i].allocated_amps <= SAFE_MODE_MAX_AMPS

\* C4 witness: a safe-mode cycle over two vehicles that both need charge, one
\* of them force-charged, with the optimizer recommending to charge now.
C4_Witness ==
    /\ InSafeMode
    /\ Len(data.vehicles) = 2
    /\ \A i \in Listed : ConnectedBelowTarget(data.vehicles[i])
    /\ \E i \in Listed : IsForcedIn(i)
    /\ \E i \in Listed : ~IsForcedIn(i)
    /\ cycle.opp_result.should_charge_now

\* C5 (as claimed): every retained sample was recorded in the calendar hour
\* (date and hour) of the most recent sample.
C5_SamplesOfOneCalendarHour ==
    /\ Len(sample_times) = Len(tracker.samples)
    /\ \A i \in 1..Len(sample_times) :
          sample_times[i] = sample_times[Len(sample_times)]

\* the listed vehicles in the force-charge set of the cycle
ForcedListed ==
    LET Forced(v) == v.vehicle_id \in cycle.force_ids
    IN SelectSeq(data.vehicles, Forced)

\* the allocator run over the forced vehicles with the stage-2 capacity
ForcedPass ==
    allocate_power_to_vehicles(ForcedListed, cycle.available_kw,
                               DEFAULT_FUSE_SIZE)

\* C6: in a cycle that passed safety every force-charged vehicle ends with the
\* allocation the allocator gives it over the forced vehicles against the full
\* stage-2 capacity, whatever the optimizer recommends, and the decision
\* reason contains force_charge whenever a listed vehicle is force-charged.
C6_ForcedAllocationFromFullCapacity ==
    PassedSafety =>
        /\ \A i \in Listed : IsForcedIn(i) =>
              \E k \in 1..Len(ForcedPass) :
                  /\ ForcedPass[k].vehicle_id = data.vehicles[i].vehicle_id
                  /\ ForcedPass[k].amps = data.vehicles[i].allocated_amps
                  /\ ForcedPass[k].phases = data.vehicles[i].allocated_phases
        /\ (\E i \in Listed : IsForcedIn(i)) =>
              data.decision_reason \in ReasonsWith("force_charge")

\* C6 witness: the optimizer defers (export more profitable), one of two
\* vehicles is force-charged and allocated a positive current, the other is
\* a normal vehicle that needs charge.
C6_Witness ==
    /\ PassedSafety
    /\ ~cycle.opp_result.should_charge_now
    /\ Len(data.vehicles) = 2
    /\ \E i \in Listed : IsForcedIn(i) /\ data.vehicles[i].allocated_amps > 0
    /\ \E i \in Listed :
          ~IsForcedIn(i) /\ ConnectedBelowTarget(data.vehicles[i])

\* C7 (as claimed): in a cycle that passed safety with the optimizer
\* deferring, every vehicle outside the force-charge set ends with 0 amps on
\* 1 phase and the decision reason contains export_more_profitable.
C7_DeferZeroesNormalAndSaysSo ==
    (PassedSafety /\ ~cycle.opp_result.should_charge_now) =>
        /\ \A i \in Listed : ~IsForcedIn(i) =>
              /\ data.vehicles[i].allocated_amps = 0
              /\ data.vehicles[i].allocated_phases = 1
        /\ data.decision_reason \in ReasonsWith("export_more_profitable")

\* C8: after any cycle a vehicle with a positive current is connected and has
\* an unknown state of charge or one below its target, force-charged or not.
C8_OnlyVehiclesThatNeedChargeGetCurrent ==
    Ran =>
        \A i \in Listed :
            data.vehicles[i].allocated_amps > 0 =>
                ConnectedBelowTarget(data.vehicles[i])

\* C8 witness: a cycle that allocated a positive current to one vehicle while
\* a force-charged vehicle at its target and 0 amps is listed as well.
C8_Witness ==
    /\ PassedSafety
    /\ \E i \in Listed : data.vehicles[i].allocated_amps > 0
    /\ \E i \in Listed :
          /\ IsForcedIn(i)
          /\ data.vehicles[i].is_connected
          /\ ~ConnectedBelowTarget(data.vehicles[i])
          /\ data.vehicles[i].allocated_amps = 0

\* C9: SafetyCheck.evaluate returns the outcome of the first matching rule:
\* (1) grid rewards active and battery power < 0, blocked; (2) cooldown
\* active, blocked; (3) grid meter unavailable, safe mode at 6 A; (4) all
\* clear.  safe_mode and max_amps are set by rule 3 only.
C9_FirstMatchingRuleWins ==
    probe.done =>
        LET a == probe.args
            r == probe.result
            rule1 == a.grid_rewards_active /\ a.battery_power_w < 0
            rule2 == ~rule1 /\ a.obc_cooldown_active
            rule3 == ~rule1 /\ ~rule2 /\ ~a.grid_meter_available
            rule4 == ~rule1 /\ ~rule2 /\ ~rule3
        IN /\ rule1 => /\ ~r.allow_charging
                       /\ r.reason = "grid_rewards_active_battery_exporting"
           /\ rule2 => /\ ~r.allow_charging
                       /\ r.reason = "obc_cooldown_active"
           /\ rule3 => /\ r.allow_charging
                       /\ r.reason = "grid_meter_unavailable_safe_mode"
                       /\ r.safe_mode
                       /\ r.max_amps = Some(6)
           /\ rule4 => /\ r.allow_charging
                       /\ r.reason = "all_clear"
           /\ ~rule3 => (~r.safe_mode /\ r.max_amps = None)

\* C9 witness: grid rewards active with a battery power of exactly 0, the
\* meter unavailable and no cooldown: rule 1 does not match, rule 3 decides.
C9_Witness ==
    /\ probe.done
    /\ probe.args.grid_rewards_active
    /\ probe.args.battery_power_w = 0
    /\ ~probe.args.grid_meter_available
    /\ ~probe.args.obc_cooldown_active
    /\ probe.result.safe_mode

\* C10: a cycle in which rule 1 does not match is blocked with reason
\* obc_cooldown_active exactly when the charger of some listed vehicle had
\* start_cooldown called and less than 30 s passed since its latest call;
\* the tracker holds exactly the latest start of every charger ever started
\* (no entry is removed).
C10_BlockedExactlyWhileCooldownRuns ==
    /\ cooldowns = last_started
    /\ (Ran /\ ~RewardsBlocking) =>
          ((cycle.stage = "blocked"
              /\ data.decision_reason = "obc_cooldown_active")
           <=> CooldownBlocking)

\* C10 witness: a cycle that passed safety although the charger of a listed
\* vehicle has an entry: its cooldown was started after time 0 and 30 s or
\* more had passed when the cycle ran.
C10_Witness ==
    /\ PassedSafety
    /\ Len(data.vehicles) = 2
    /\ \E i \in Listed :
          LET ch == data.vehicles[i].charger_entity_id
          IN /\ ch \in DOMAIN cycle.started
             /\ cycle.started[ch] > 0
             /\ cycle.at_monotonic - cycle.started[ch] >= OBC_COOLDOWN_SECONDS

\* the allocator has been called directly and has returned
Allocated == probe.fn = "allocate_power_to_vehicles" /\ probe.done

RECURSIVE AllocatedAmps(_)
AllocatedAmps(allocs) ==
    IF allocs = <<>> THEN 0 ELSE Head(allocs).amps + AllocatedAmps(Tail(allocs))

\* the amps of the allocation for vehicle id in allocs
AmpsFor(allocs, id) ==
    LET k == CHOOSE k \in 1..Len(allocs) : allocs[k].vehicle_id = id
    IN allocs[k].amps

C12_ZeroOrAtLeastSixAmps ==
    Allocated =>
        \A k \in 1..Len(probe.result) :
            \/ probe.result[k].amps = 0
            \/ probe.result[k].amps >= MIN_CHARGING_AMPS

\* C13: in a call with two connected vehicles that both need charge and have
\* different priority numbers, the vehicle with the lower priority number
\* gets what it would get if it were the only vehicle, gets at least as much
\* as the other vehicle, and gets the same with the input list reversed.
C13_LowerPriorityNumberServedFirst ==
    (/\ Allocated
     /\ Len(probe.args.vehicles) = 2
     /\ \A i \in 1..2 : ConnectedBelowTarget(probe.args.vehicles[i])
     /\ probe.args.vehicles[1].priority # probe.args.vehicles[2].priority)
    => LET vs == probe.args.vehicles
           cap == probe.args.available_capacity_kw
           fuse == probe.args.fuse_size
           f == IF vs[1].priority < vs[2].priority THEN 1 ELSE 2
           first == vs[f]
           other == vs[3 - f]
           alone == allocate_power_to_vehicles(<<first>>, cap, fuse)
           reversed == allocate_power_to_vehicles(<<vs[2], vs[1]>>, cap, fuse)
       IN /\ AmpsFor(probe.result, first.vehicle_id) = alone[1].amps
          /\ AmpsFor(probe.result, first.vehicle_id)
                >= AmpsFor(probe.result, other.vehicle_id)
          /\ AmpsFor(reversed, first.vehicle_id)
                = AmpsFor(probe.result, first.vehicle_id)
          /\ AmpsFor(reversed, other.vehicle_id)
                = AmpsFor(probe.result, other.vehicle_id)

\* C13 witness: the vehicle with the lower priority number comes second in
\* the input list and is allocated more than the other vehicle, which still
\* gets a positive current.
C13_Witness ==
    /\ Allocated
    /\ Len(probe.args.vehicles) = 2
    /\ \A i \in 1..2 : ConnectedBelowTarget(probe.args.vehicles[i])
    /\ probe.args.vehicles[2].priority < probe.args.vehicles[1].priority
    /\ AmpsFor(probe.result, probe.args.vehicles[2].vehicle_id)
          > AmpsFor(probe.result, probe.args.vehicles[1].vehicle_id)
    /\ AmpsFor(probe.result, probe.args.vehicles[1].vehicle_id) > 0

\* the optimizer has been called directly and has returned
Evaluated == probe.fn = "evaluate_opportunity_cost" /\ probe.done

\* export_revenue of the call's arguments, in 1/10000
ExpectedExportRevenue(a) ==
    (a.current_export_price + a.export_compensation - a.grid_fee_export) * 100

\* night_charge_cost of the call's arguments (a night price exists), in 1/10000
ExpectedNightCost(a) ==
    (a.cheapest_night_import_price[1] + a.grid_fee_import) * (100 + a.vat_rate)

\* C14: evaluate_opportunity_cost charges now with no_night_prices_available
\* when there is no night price; otherwise it defers with
\* export_more_profitable exactly when export_revenue > night_charge_cost and
\* charges now with charging_now_cheaper when export_revenue <=
\* night_charge_cost.
C14_DefersExactlyWhenExportPaysMore ==
    Evaluated =>
        LET a == probe.args
            r == probe.result
        IN IF a.cheapest_night_import_price = None
             THEN r.should_charge_now /\ r.reason = "no_night_prices_available"
             ELSE /\ (ExpectedExportRevenue(a) > ExpectedNightCost(a))
                        <=> (~r.should_charge_now
                               /\ r.reason = "export_more_profitable")
                  /\ (ExpectedExportRevenue(a) <= ExpectedNightCost(a))
                        => (r.should_charge_now
                              /\ r.reason = "charging_now_cheaper")

\* C14 witness: a call with a positive VAT rate in which export revenue and
\* night cost are equal and positive, and the result is to charge now.
C14_Witness ==
    /\ Evaluated
    /\ probe.args.cheapest_night_import_price # None
    /\ probe.args.vat_rate > 0
    /\ ExpectedExportRevenue(probe.args) = ExpectedNightCost(probe.args)
    /\ ExpectedExportRevenue(probe.args) > 0
    /\ probe.result.should_charge_now

\* a = b for exact values
RatEq(a, b) == a.n * b.d = b.n * a.d

\* the watts of the logged add_sample calls, in call order
LoggedWatts == [i \in 1..Len(sample_log) |-> sample_log[i].watts]

CapacityAsked == probe.fn = "available_capacity_kw" /\ probe.done

\* C16: for every sample history and every limit >= 0,
\* available_capacity_kw(limit) is max(0, limit - average_kw()) and is never
\* negative.
C16_CapacityIsClampedHeadroom ==
    CapacityAsked =>
        LET limit == probe.args.power_limit_kw
            n == Len(tracker.samples)
            sum == SeqSum(tracker.samples)
            r == probe.result
        IN /\ r.d > 0 /\ r.n >= 0
           /\ n = 0 => RatEq(r, RatInt(limit))
           /\ (n > 0 /\ limit * n >= sum) => RatEq(r, Rat(limit * n - sum, n))
           /\ (n > 0 /\ limit * n < sum) => r.n = 0

\* C16 witness: a positive limit and a history with a net-export sample whose
\* average is above the limit; the capacity is 0.
C16_Witness ==
    /\ CapacityAsked
    /\ probe.args.power_limit_kw > 0
    /\ \E i \in 1..Len(tracker.samples) : tracker.samples[i] < 0
    /\ SeqSum(tracker.samples)
          > probe.args.power_limit_kw * Len(tracker.samples)
    /\ probe.result.n = 0

\* a cycle has run and the inputs of its pipeline call are on record
Recorded == probe.fn = "run_decision_pipeline" /\ probe.done

\* run_decision_pipeline run once more from the recorded inputs
Rerun ==
    PipelineOutcome(probe.args.ctx, probe.args.tracker, probe.args.cooldowns,
                    probe.args.monotonic, probe.args.utc_now)

C18_ReasonCarriesOptimizerCode ==
    PassedSafety =>
        data.decision_reason =
            IF \E i \in Listed : IsForcedIn(i)
              THEN "force_charge | " \o cycle.opp_result.reason
              ELSE cycle.opp_result.reason

\* what evaluate_opportunity_cost yields for the prices, fees and VAT of the
\* latest snapshot
SnapshotOpportunity ==
    evaluate_opportunity_cost(data.current_export_price,
                              data.cheapest_night_price,
                              data.grid_fee_import, data.grid_fee_export,
                              data.export_compensation, data.vat_rate)

\* C19 (as claimed): after every cycle, blocked or not, the snapshot's
\* opportunity_export_revenue and opportunity_night_cost are the export
\* revenue and night cost evaluate_opportunity_cost yields for the cycle's
\* prices, fees and VAT.
C19_SnapshotCarriesCostFigures ==
    Ran =>
        /\ data.opportunity_export_revenue = SnapshotOpportunity.export_revenue
        /\ data.opportunity_night_cost = SnapshotOpportunity.night_charge_cost

\* a step in which the pipeline ran (a start of a cooldown changes none of
\* these)
PipelineStep ==
    <<data, cycle, tracker, force_charge_vehicles>>'
        # <<data, cycle, tracker, force_charge_vehicles>>

\* C20: a cycle that safety blocks leaves the tracker's samples and hour and
\* the cooldown dict as they were, records no add_sample call, runs no
\* allocator pass, and returns the safety reason code as its decision
\* reason.
C20_BlockedCycleStopsAfterSafety ==
    [][(PipelineStep /\ cycle'.stage = "blocked") =>
          /\ tracker' = tracker
          /\ sample_log' = sample_log
          /\ cooldowns' = cooldowns
          /\ cycle'.force_alloc = <<>>
          /\ cycle'.normal_alloc = <<>>
          /\ ~cycle'.safety.allow_charging
          /\ data'.decision_reason = cycle'.safety.reason
          /\ data'.decision_reason \in
                {"grid_rewards_active_battery_exporting", "obc_cooldown_active"}
          /\ data'.calendar_hour_avg_kw = average_kw(tracker)]_vars

\* C20 witness: a cycle blocked by a cooldown after an earlier cycle recorded
\* a sample of 5000 W, with a vehicle in the force-charge set; the sample is
\* still the only one.
C20_Witness ==
    /\ cycle.stage = "blocked"
    /\ data.decision_reason = "obc_cooldown_active"
    /\ tracker.samples = <<5000>>
    /\ sample_log = <<[at |-> utc_now, watts |-> 5000]>>
    /\ \E i \in Listed : IsForcedIn(i) /\ ConnectedBelowTarget(data.vehicles[i])

\* the grid sensor has no usable reading: _read_float returned its default
GridDefaulted == hass.grid_sensor.kind # "number"

\* C21 (as claimed): in every cycle whose grid-power value is the 0.0 default
\* of a sensor without a usable reading (missing, 'unavailable', 'unknown',
\* empty, or not convertible to a number), grid_meter_available is false and
\* the cycle is blocked or runs in safe mode.
C21_DefaultedGridReadingIsUnavailable ==
    (Ran /\ GridDefaulted) =>
        /\ data.grid_power_w = 0
        /\ ~data.grid_meter_available
        /\ \/ cycle.stage = "blocked"
           \/ cycle.safety.safe_mode

\* C22: whatever the pause-all switch was toggled to between and before the
\* polling cycles, every snapshot (allocations and decision reason included)
\* and the tracker equal those of a coordinator that received the same
\* refreshes with the flag never set.
C22_PauseFlagNeverInfluencesSnapshot ==
    probe.fn = "_async_update_data" =>
        /\ data = probe.result.data
        /\ tracker = probe.result.tracker

\* C22 witness: a refresh run with the flag set in which a vehicle is
\* allocated current, after an earlier refresh recorded a sample.
C22_Witness ==
    /\ probe.fn = "_async_update_data" /\ probe.done
    /\ pause_all
    /\ cycle.stage = "done"
    /\ Len(tracker.samples) = 2
    /\ \E i \in Listed : data.vehicles[i].allocated_amps > 0
    /\ data = probe.result.data

\* a read that ends the call with True: the entity exists, its status is
\* neither awaiting_smart_charging nor standby, and every expected key has
\* the expected value in the attributes (the state itself for "status")
Passing(expected, entity) ==
    /\ entity # None
    /\ Lower(entity[1].state) \notin {"awaiting_smart_charging", "standby"}
    /\ \A key \in {"status", "dynamic_limit"} :
          expected[key] # None =>
             \/ entity[1].attributes[key] = expected[key]
             \/ /\ entity[1].attributes[key] = None
                /\ key = "status"
                /\ expected[key] = Some(entity[1].state)

\* the result the claim gives a call after the reads it made
VerifyResult(expected, reads) ==
    LET last == reads[Len(reads)]
    IN IF reads = <<>> THEN None
       ELSE IF last = None THEN Some(FALSE)
       ELSE IF Passing(expected, last) THEN Some(TRUE)
       ELSE IF Len(reads) = VERIFY_MAX_RETRIES THEN Some(FALSE)
       ELSE None

\* C23 (safety part): a verify_state call makes at most 3 status reads and
\* sleeps at most timeout_s + 2 * 2 s; it reads again only after a read of
\* an existing entity that was blocking or did not match; its result is True
\* at the first read that is not blocking and matches, False at a read that
\* finds no entity, False after a third read without a match, and nothing
\* else.
VerifyBounded ==
    /\ Len(verify.reads) <= VERIFY_MAX_RETRIES
    /\ verify.slept <= verify.timeout_s + 2 * VERIFY_RETRY_DELAY_S
    /\ \A i \in 1..(Len(verify.reads) - 1) :
          /\ verify.reads[i] # None
          /\ ~Passing(verify.expected, verify.reads[i])
    /\ verify.result = VerifyResult(verify.expected, verify.reads)
    /\ verify.result \in {None, Some(TRUE), Some(FALSE)}

\* C23: every verify_state call ends with a boolean, within the bounds and
\* with the result stated above.
C23_VerifyStateEndsWithBoolean ==
    /\ []VerifyBounded
    /\ <>(verify.result \in {Some(TRUE), Some(FALSE)})

\* C23 witness: a call that returned False after three reads of a charger
\* that stayed in a blocking state.
C23_Witness ==
    /\ verify.called
    /\ verify.result = Some(FALSE)
    /\ Len(verify.reads) = VERIFY_MAX_RETRIES
    /\ \A i \in 1..Len(verify.reads) :
          /\ verify.reads[i] # None
          /\ verify.reads[i][1].state \in {"standby", "awaiting_smart_charging"}
    /\ verify.expected.status = Some("charging")

\* C24 (as claimed): in a cycle that passed safety, a vehicle outside the
\* force-charge set has a positive allocation only if every connected,
\* charge-needing vehicle inside the set has one.
C24_NormalOnlyAfterEveryForced ==
    (/\ PassedSafety
     /\ \E i \in Listed :
           ~IsForcedIn(i) /\ data.vehicles[i].allocated_amps > 0) =>
        \A j \in Listed :
            (IsForcedIn(j) /\ ConnectedBelowTarget(data.vehicles[j])) =>
                data.vehicles[j].allocated_amps > 0

\* the vehicle of the call's list that the k-th returned allocation is for
AllocatedVehicle(k) ==
    LET i == CHOOSE i \in 1..Len(probe.args.vehicles) :
                 probe.args.vehicles[i].vehicle_id = probe.result[k].vehicle_id
    IN probe.args.vehicles[i]

\* C25: the allocations of one call come in priority order; when one is
\* positive, every connected, charge-needing vehicle ahead of it has exactly
\* fuse_size amps; after a positive allocation below fuse_size every
\* allocation is 0, so at most one is positive and below fuse_size.
C25_NoSplitBelowFuseCeiling ==
    Allocated =>
        LET r == probe.result
            fuse == probe.args.fuse_size
        IN /\ \A j, k \in 1..Len(r) :
                 j < k => AllocatedVehicle(j).priority
                             <= AllocatedVehicle(k).priority
           /\ \A j, k \in 1..Len(r) :
                 (j < k /\ r[k].amps > 0
                        /\ ConnectedBelowTarget(AllocatedVehicle(j)))
                    => r[j].amps = fuse
           /\ \A j, k \in 1..Len(r) :
                 (j < k /\ r[j].amps > 0 /\ r[j].amps < fuse)
                    => r[k].amps = 0
           /\ Cardinality({k \in 1..Len(r) :
                              r[k].amps > 0 /\ r[k].amps < fuse}) <= 1

\* C25 witness: the first vehicle gets a positive current below the fuse
\* size, and the second, connected and in need of charge, gets 0.
C25_Witness ==
    /\ Allocated
    /\ Len(probe.result) = 2
    /\ probe.args.fuse_size >= MIN_CHARGING_AMPS
    /\ probe.result[1].amps > 0
    /\ probe.result[1].amps < probe.args.fuse_size
    /\ ConnectedBelowTarget(AllocatedVehicle(2))
    /\ probe.result[2].amps = 0

\* C26 (as claimed): after any pipeline cycle, blocked or not, every listed
\* vehicle has 0 amps or 6 to 20 amps, 1 or 3 phases, and 3 phases when its
\* amps are positive.
C26_AmpsAndPhasesInRange ==
    Ran =>
        \A i \in Listed :
            LET v == data.vehicles[i]
            IN /\ \/ v.allocated_amps = 0
                  \/ v.allocated_amps \in MIN_CHARGING_AMPS..DEFAULT_FUSE_SIZE
               /\ v.allocated_phases \in {1, NUM_PHASES}
               /\ v.allocated_amps > 0 => v.allocated_phases = NUM_PHASES

\* C26 witness: a cycle in which one vehicle is allocated the fuse ceiling of
\* 20 A and one that needs charge is refused by the allocator (0 A on 3
\* phases).
C26_Witness ==
    /\ PassedSafety
    /\ \E i \in Listed :
          /\ data.vehicles[i].allocated_amps = DEFAULT_FUSE_SIZE
          /\ data.vehicles[i].allocated_phases = NUM_PHASES
    /\ \E i \in Listed :
          /\ ConnectedBelowTarget(data.vehicles[i])
          /\ data.vehicles[i].allocated_amps = 0
          /\ data.vehicles[i].allocated_phases = NUM_PHASES

\* the tracker's hour differs from the hour of the wall clock
HourChanged ==
    tracker.current_hour # None /\ tracker.current_hour[1] # HourOf(utc_now)

RECURSIVE WattsOfHour(_, _)
WattsOfHour(log, t) ==
    IF log = <<>> THEN <<>>
    ELSE (IF Head(log).at = t THEN <<Head(log).watts>> ELSE <<>>)
            \o WattsOfHour(Tail(log), t)

\* the mean of a sequence of samples, 0 for none
MeanOf(ws) == IF ws = <<>> THEN Rat(0, 1) ELSE Rat(SeqSum(ws), Len(ws))

\* C28 (as claimed): the calendar_hour_avg_kw and available_capacity_kw of
\* the snapshot of every cycle, blocked or not, are the mean of the samples
\* recorded in the calendar hour in which the cycle runs, and the clamped
\* limit minus that mean.
C28_SnapshotOfThisCalendarHourOnly ==
    [][PipelineStep =>
          LET avg == MeanOf(WattsOfHour(sample_log', utc_now))
          IN /\ RatEq(data'.calendar_hour_avg_kw, avg)
             /\ RatEq(data'.available_capacity_kw,
                      RatMax0(RatSub(RatInt(data'.power_limit_kw), avg)))]_vars

\* the power limit has been set through the number entity
LimitSet == probe.fn = "async_set_native_value" /\ probe.done

\* C29 (as claimed): once async_set_native_value(v) and its refresh are
\* done, and until the value is set again, native_value is v and the
\* capacity of every cycle is computed against the limit v.
C29_SetPowerLimitTakesEffect ==
    LimitSet =>
        /\ native_value = probe.args.value
        /\ (PassedSafety /\ ~cycle.safety.safe_mode) =>
              RatEq(cycle.available_kw,
                    available_capacity_kw(tracker, probe.args.value))

\* the decision reasons a cycle may end with
DecisionReasons ==
    {"grid_rewards_active_battery_exporting", "obc_cooldown_active",
     "force_charge"}
    \cup OptimizerReasons
    \cup {"force_charge | " \o r : r \in OptimizerReasons}

\* C30: after any cycle the decision reason is one of the two blocking
\* codes, an optimizer code, "force_charge", or "force_charge | " followed
\* by an optimizer code; in a cycle that passed safety, in safe mode or not,
\* it is made of "force_charge" when a listed vehicle is forced and the
\* optimizer's code when a listed vehicle is not forced or none is listed,
\* and of nothing else.
C30_DecisionReasonInFixedSet ==
    Ran =>
        /\ data.decision_reason \in DecisionReasons
        /\ data.decision_reason \notin
              {"", "initialized", "all_clear",
               "grid_meter_unavailable_safe_mode"}
        /\ PassedSafety =>
              LET forced == \E i \in Listed : IsForcedIn(i)
                  normal == \E i \in Listed : ~IsForcedIn(i)
                  code == cycle.opp_result.reason
              IN /\ code \in OptimizerReasons
                 /\ data.decision_reason =
                       IF forced /\ normal THEN "force_charge | " \o code
                       ELSE IF forced THEN "force_charge"
                       ELSE code

\* C30 witness: a safe-mode cycle over a forced and a normal vehicle, the
\* reason being "force_charge | " and the optimizer's code, with the safety
\* reason of the cycle the safe-mode code.
C30_Witness ==
    /\ InSafeMode
    /\ cycle.safety.reason = "grid_meter_unavailable_safe_mode"
    /\ \E i \in Listed : IsForcedIn(i)
    /\ \E i \in Listed : ~IsForcedIn(i)
    /\ data.decision_reason = "force_charge | export_more_profitable"

====
